---- MODULE Spec2Model ----
(***************************************************************************)
(* A model of the real-estate search pipeline:                             *)
(*   real_estate_agent.py  extract_neighborhood, extract_budget,           *)
(*                         extract_purpose, format_property,               *)
(*                         run_real_estate_agent                           *)
(*   real_estate_tool.py   fetch_properties and its lookup tables          *)
(* Text is a sequence of one-character strings, so that lower(), the        *)
(* substring tests and the two regular expressions are computed character  *)
(* by character.  A float is an exact fraction n/d, or NaN, or Inf.        *)
(***************************************************************************)
EXTENDS Integers, Sequences, FiniteSets, TLC

VARIABLES
    user_query,               \* the text handed to run_real_estate_agent
    query_parts,              \* how user_query was put together (history only)
    pc,                       \* position in the running function
    neighborhood,             \* run_real_estate_agent locals
    budget,
    purpose,
    neighborhoods_to_search,
    nbi,                      \* index of the for-loop over neighborhoods_to_search
    all_results,
    fanout_order,             \* all_results as it was before the in-place sort
    top_results,
    printed,                  \* the lines format_property produced
    summarized,               \* what summarize_listings was called with
    outcome,                  \* how run_real_estate_agent ended
    args,                     \* fetch_properties: the arguments of the call in progress
    requests,                 \* every outbound request issued, with the provider's answer
    calls,                    \* every fetch_properties invocation, with what it returned
    ret                       \* fetch_properties: how the last invocation ended

vars == <<user_query, query_parts, pc, neighborhood, budget, purpose,
          neighborhoods_to_search, nbi, all_results, fanout_order, top_results,
          printed, summarized, outcome, args, requests, calls, ret>>

-----------------------------------------------------------------------------
(* Bounds of the model *)

\* longest run of blanks put between the words of a budget phrase
MaxSpaces == 2

\* most raw records in one provider answer
MaxHits == 3

-----------------------------------------------------------------------------
(* Text *)

Chars(s) == [i \in 1..Len(s) |-> SubSeq(s, i, i)]

Min(S) == CHOOSE x \in S : \A y \in S : x <= y

UpperLetters == Chars("ABCDEFGHIJKLMNOPQRSTUVWXYZ")

LowerLetters == Chars("abcdefghijklmnopqrstuvwxyz")

Digits == Chars("0123456789")

LowerOf == [c \in {UpperLetters[i] : i \in 1..Len(UpperLetters)} |->
               LowerLetters[CHOOSE i \in 1..Len(UpperLetters) : UpperLetters[i] = c]]

\* str.lower() on one character
LowerChar(c) == IF c \in DOMAIN LowerOf THEN LowerOf[c] ELSE c

\* str.lower()
Lower(q) == [i \in 1..Len(q) |-> LowerChar(q[i])]

\* `lit in q` at position i
LitAt(q, i, lit) ==
    /\ i >= 1
    /\ i + Len(lit) - 1 <= Len(q)
    /\ SubSeq(q, i, i + Len(lit) - 1) = lit

\* `sub in q`
Contains(sub, q) == \E i \in 1..(Len(q) - Len(sub) + 1) : LitAt(q, i, sub)

\* the class \s
SpaceChars == {" ", "\t", "\n"}

IsSpace(c) == c \in SpaceChars

\* str.strip(): leading and trailing whitespace removed
Strip(q) ==
    LET keep == {i \in 1..Len(q) : ~IsSpace(q[i])}
    IN  IF keep = {} THEN <<>>
        ELSE SubSeq(q, Min(keep), CHOOSE x \in keep : \A y \in keep : y <= x)

DigitOf == [c \in {Digits[i] : i \in 1..Len(Digits)} |->
               (CHOOSE i \in 1..Len(Digits) : Digits[i] = c) - 1]

IsDigit(c) == c \in DOMAIN DigitOf

DigitVal(c) == DigitOf[c]

\* the class [\d\.]
DigitOrDotChars == DOMAIN DigitOf \cup {"."}

IsDigitOrDot(c) == c \in DigitOrDotChars

\* the class [\d,]
DigitOrCommaChars == DOMAIN DigitOf \cup {","}

\* a greedy run of a character class starting at i ends at RunEnd (i - 1 when
\* it is empty)
RunEnd(q, i, class) ==
    LET stop == {k \in i..Len(q) : q[k] \notin class}
    IN  IF stop = {} THEN Len(q) ELSE Min(stop) - 1

-----------------------------------------------------------------------------
(* Values *)

None == [t |-> "none", n |-> 0, d |-> 1]

Num(n, d) == [t |-> "num", n |-> n, d |-> d]

Inf == [t |-> "inf", n |-> 0, d |-> 1]

NaN == [t |-> "nan", n |-> 0, d |-> 1]

NoLocation == "<None>"

RECURSIVE DigitsValue(_)
DigitsValue(s) ==
    IF s = <<>> THEN 0
    ELSE 10 * DigitsValue(SubSeq(s, 1, Len(s) - 1)) + DigitVal(s[Len(s)])

RECURSIVE Pow10(_)
Pow10(k) == IF k = 0 THEN 1 ELSE 10 * Pow10(k - 1)

\* float(text) for a text of digits and dots: the value, or ValueError
ParseFloat(s) ==
    LET dots == {i \in 1..Len(s) : s[i] = "."}
        digs == SelectSeq(s, IsDigit)
    IN  IF Cardinality(dots) > 1 \/ digs = <<>> \/ \E i \in 1..Len(s) : ~IsDigitOrDot(s[i])
        THEN [ok |-> FALSE, n |-> 0, d |-> 1]
        ELSE [ok |-> TRUE, n |-> DigitsValue(digs),
              d |-> IF dots = {} THEN 1 ELSE Pow10(Len(s) - Min(dots))]

\* x * 1_000_000
TimesMillion(x) ==
    IF 1000000 % x.d = 0
    THEN [ok |-> TRUE, n |-> x.n * (1000000 \div x.d), d |-> 1]
    ELSE [ok |-> TRUE, n |-> x.n * 1000000, d |-> x.d]

\* text.replace(",", "")
RemoveCommas(s) == SelectSeq(s, LAMBDA c : c # ",")

-----------------------------------------------------------------------------
(* real_estate_agent.py: the parameter extractors *)

\* the keys of NEIGHBORHOOD_SCHOOLS, in declaration order
NEIGHBORHOOD_SCHOOLS ==
    << "arabian ranches", "dubai hills estate", "mirdif", "jumeirah",
       "palm jumeirah", "al furjan", "emirates hills" >>

NoMatch == [matched |-> FALSE, group |-> <<>>]

\* the literals of the two patterns
Under == Chars("under")

LitM == Chars("m")

Illion == Chars("illion")

Aed == Chars("aed")

Rent == Chars("rent")

NeighborhoodKeys == [i \in 1..Len(NEIGHBORHOOD_SCHOOLS) |-> Chars(NEIGHBORHOOD_SCHOOLS[i])]

\* for nb in NEIGHBORHOOD_SCHOOLS.keys(): if nb in q: return nb
extract_neighborhood(query) ==
    LET q    == Lower(query)
        hits == {i \in 1..Len(NEIGHBORHOOD_SCHOOLS) : Contains(NeighborhoodKeys[i], q)}
    IN  IF hits = {} THEN NoLocation ELSE NEIGHBORHOOD_SCHOOLS[Min(hits)]

\* re.match of under\s+([\d\.]+)\s*M(?:illion)?\s*AED at position i of the
\* lowercased text, case ignored: the captured group
MillionMatchAt(q, i) ==
    IF ~LitAt(q, i, Under) THEN NoMatch
    ELSE LET a  == i + 5
             b  == RunEnd(q, a, SpaceChars)
             c  == RunEnd(q, b + 1, DigitOrDotChars)
             e  == RunEnd(q, c + 1, SpaceChars) + 1
             g1 == RunEnd(q, e + 7, SpaceChars)
             g0 == RunEnd(q, e + 1, SpaceChars)
         IN  IF /\ b >= a
                /\ c >= b + 1
                /\ LitAt(q, e, LitM)
                /\ \/ LitAt(q, e + 1, Illion) /\ LitAt(q, g1 + 1, Aed)
                   \/ LitAt(q, g0 + 1, Aed)
             THEN [matched |-> TRUE, group |-> SubSeq(q, b + 1, c)]
             ELSE NoMatch

\* re.match of under\s+([\d,]+)\s*AED at position i
PlainMatchAt(q, i) ==
    IF ~LitAt(q, i, Under) THEN NoMatch
    ELSE LET a == i + 5
             b == RunEnd(q, a, SpaceChars)
             c == RunEnd(q, b + 1, DigitOrCommaChars)
             g == RunEnd(q, c + 1, SpaceChars)
         IN  IF b >= a /\ c >= b + 1 /\ LitAt(q, g + 1, Aed)
             THEN [matched |-> TRUE, group |-> SubSeq(q, b + 1, c)]
             ELSE NoMatch

\* re.search of the million pattern: the leftmost position where it matches
MillionSearch(q) ==
    LET starts == {i \in 1..Len(q) : MillionMatchAt(q, i).matched}
    IN  IF starts = {} THEN NoMatch ELSE MillionMatchAt(q, Min(starts))

\* re.search of the plain pattern
PlainSearch(q) ==
    LET starts == {i \in 1..Len(q) : PlainMatchAt(q, i).matched}
    IN  IF starts = {} THEN NoMatch ELSE PlainMatchAt(q, Min(starts))

\* the first try block: float(m.group(1)) * 1_000_000
MillionBudget(q) ==
    LET m == MillionSearch(q)
        x == ParseFloat(m.group)
    IN  IF m.matched /\ x.ok THEN TimesMillion(x) ELSE [ok |-> FALSE, n |-> 0, d |-> 1]

\* the second try block: float(m2.group(1).replace(",", ""))
PlainBudget(q) ==
    LET m2 == PlainSearch(q)
        x  == ParseFloat(RemoveCommas(m2.group))
    IN  IF m2.matched /\ x.ok THEN x ELSE [ok |-> FALSE, n |-> 0, d |-> 1]

\* extract_budget with the plain pattern tried before the million pattern
extract_budget_plain_first(query) ==
    LET q == Lower(query)
        m == MillionBudget(q)
        p == PlainBudget(q)
    IN  IF p.ok THEN Num(p.n, p.d)
        ELSE IF m.ok THEN Num(m.n, m.d)
        ELSE None

extract_budget(query) ==
    LET q == Lower(query)
        m == MillionBudget(q)
        p == PlainBudget(q)
    IN  IF m.ok THEN Num(m.n, m.d)
        ELSE IF p.ok THEN Num(p.n, p.d)
        ELSE None

extract_purpose(query) ==
    IF Contains(Rent, Lower(query)) THEN "rent" ELSE "sale"

-----------------------------------------------------------------------------
(* real_estate_tool.py: lookup tables *)

PROPERTY_TYPE_IDS ==
    << <<"apartment", "4">>, <<"villa", "16">>, <<"townhouse", "17">>,
       <<"penthouse", "19">>, <<"office", "7">>, <<"shop", "6">>,
       <<"warehouse", "8">>, <<"labour camp", "12">>, <<"bulk unit", "18">>,
       <<"floor", "21">>, <<"building", "14">>, <<"factory", "11">>,
       <<"industrial land", "22">>, <<"mixed use land", "23">>,
       <<"showroom", "10">>, <<"land", "9">>, <<"other commercial", "24">> >>

DUBAI_VILLA_NEIGHBORHOODS ==
    << "Dubai Hills Estate", "Arabian Ranches", "Palm Jumeirah", "Emirates Hills",
       "The Villa", "Jumeirah Park", "Damac Lagoons", "Tilal Al Ghaf" >>

location_map ==
    << <<"downtown dubai", "5002">>, <<"dubai marina", "5002">>, <<"mirdif", "5002">>,
       <<"arabian ranches", "5002">>, <<"dubai hills estate", "5002">>,
       <<"jumeirah", "5002">>, <<"palm jumeirah", "5002">>, <<"dubai", "5002">> >>

\* the default of location_map.get(loc_key, "5002")
FallbackLocationId == "5002"

Absent == "<absent>"

\* dict.get(key, default) on a table of <<key, value>> pairs; key is a text
TableGet(table, key, default) ==
    LET at == {i \in 1..Len(table) : Chars(table[i][1]) = key}
    IN  IF at = {} THEN default ELSE table[Min(at)][2]

NoCategory == "<None>"

\* the arguments of one fetch_properties call (rooms, baths, lat, lon are
\* never passed by the agent and are left at None)
FetchArgs(location, purp, bud, category) ==
    [location |-> location, purpose |-> purp, budget |-> bud, category |-> category]

NoArgs == FetchArgs("", "", None, NoCategory)

\* int(budget): truncation for a finite float, ValueError for NaN,
\* OverflowError for an infinity
IntOf(x) ==
    CASE x.t = "num" -> [ok |-> TRUE, v |-> x.n \div x.d, error |-> ""]
      [] x.t = "nan" -> [ok |-> FALSE, v |-> 0, error |-> "ValueError"]
      [] x.t = "inf" -> [ok |-> FALSE, v |-> 0, error |-> "OverflowError"]
      [] OTHER       -> [ok |-> FALSE, v |-> 0, error |-> "TypeError"]

NoMaxPrice == [present |-> FALSE, v |-> 0]

\* if category: cat_id = PROPERTY_TYPE_IDS.get(category.lower()); if cat_id: ...
CategoryParam(category) ==
    IF category = NoCategory \/ category = "" THEN Absent
    ELSE TableGet(PROPERTY_TYPE_IDS, Lower(Chars(category)), Absent)

\* if budget is not None: try: params["maxPrice"] = int(budget) except ValueError: pass
MaxPriceParam(bud) ==
    IF bud.t = "none" THEN [raised |-> FALSE, param |-> NoMaxPrice]
    ELSE LET i == IntOf(bud)
         IN  IF i.ok THEN [raised |-> FALSE, param |-> [present |-> TRUE, v |-> i.v]]
             ELSE IF i.error = "ValueError" THEN [raised |-> FALSE, param |-> NoMaxPrice]
             ELSE [raised |-> TRUE, param |-> NoMaxPrice]

-----------------------------------------------------------------------------
(* real_estate_tool.py: result entries *)

PNone == [t |-> "none", v |-> 0]

PNum(v) == [t |-> "num", v |-> v]

\* a price that is a text float() cannot read, such as "N/A"
PText == [t |-> "str", v |-> 0]

\* a price that is a text holding a number, such as "2"
PNumText(v) == [t |-> "numstr", v |-> v]

\* a dict without a "price" key: {"error": ...} or {"message": ...}
Marker(kind, text) ==
    [kind |-> kind, text |-> text, purpose |-> "", price |-> PNone, id |-> 0]

MissingParams == Marker("error", "Missing required parameters: location and purpose")

RequestFailed == Marker("error", "API request failed")

ParseError == Marker("error", "Error parsing property")

NoPropertiesFound == Marker("message", "No properties found.")

\* one raw record of the provider's answer; malformed: not a mapping, or a
\* breadcrumb that is no list of mappings
RawRecord(malformed, price, id) == [malformed |-> malformed, price |-> price, id |-> id]

\* the body of the for-loop over listings
Normalize(item, purp) ==
    IF item.malformed THEN ParseError
    ELSE [kind |-> "listing", text |-> "", purpose |-> purp, price |-> item.price,
          id |-> item.id]

\* prop.get("price")
PriceOf(prop) == prop.price

-----------------------------------------------------------------------------
(* The listings provider: what one outbound request can come back with *)

Answer(kind, hits) == [kind |-> kind, hits |-> hits]

\* records with usable and with null prices, among them ties; the provider's
\* listings differ from one request to the next (shift)
CleanRecord(i, shift) ==
    RawRecord(FALSE,
              CASE (i + shift) % 3 = 1 -> PNum(2)
                [] (i + shift) % 3 = 2 -> PNone
                [] OTHER               -> PNum(1),
              i)

\* a price that is no number, a record that cannot be parsed, a price in a text
MessyRecord(i, shift) ==
    CASE (i + shift) % 3 = 1 -> RawRecord(FALSE, PText, i)
      [] (i + shift) % 3 = 2 -> RawRecord(TRUE, PNone, i)
      [] OTHER               -> RawRecord(FALSE, PNumText(2), i)

Answers(shift) ==
    { Answer("timeout", <<>>),       \* requests.get raises
      Answer("bad_json", <<>>),      \* resp.json() raises
      Answer("no_hits", <<>>),       \* a JSON object without "hits"
      Answer("hits", <<>>),          \* "hits": []
      Answer("hits", [i \in 1..MaxHits |-> CleanRecord(i, shift)]),
      Answer("hits", [i \in 1..MaxHits |-> MessyRecord(i, shift)]) }

AnswerFailed(answer) == answer.kind \in {"timeout", "bad_json"}

-----------------------------------------------------------------------------
(* real_estate_tool.py: fetch_properties *)

Returned(value) == [kind |-> "return", value |-> value, error |-> ""]

Raised(error) == [kind |-> "raise", value |-> <<>>, error |-> error]

NoRet == [kind |-> "none", value |-> <<>>, error |-> ""]

\* lines 58-91: the guard and the request parameters
FetchEnter(a) ==
    IF a.location = "" \/ a.purpose = ""
    THEN [kind |-> "return", value |-> <<MissingParams>>, error |-> "",
          loc_key |-> <<>>, params |-> <<>>]
    ELSE LET loc_key == Lower(Strip(Chars(a.location)))
             max     == MaxPriceParam(a.budget)
         IN  IF max.raised
             THEN [kind |-> "raise", value |-> <<>>, error |-> IntOf(a.budget).error,
                   loc_key |-> loc_key, params |-> <<>>]
             ELSE [kind |-> "request", value |-> <<>>, error |-> "",
                   loc_key |-> loc_key,
                   params |-> [locationExternalIDs |-> TableGet(location_map, loc_key, FallbackLocationId),
                               purpose |-> "for-" \o a.purpose,
                               hitsPerPage |-> "20",
                               categoryExternalID |-> CategoryParam(a.category),
                               maxPrice |-> max.param]]

\* fetch_properties with the failure of the outbound call left to propagate
FetchFinishPropagates(a, answer) ==
    IF AnswerFailed(answer) THEN Raised("RequestException")
    ELSE LET results == [i \in 1..Len(answer.hits) |-> Normalize(answer.hits[i], a.purpose)]
         IN  Returned(IF results # <<>> THEN results ELSE <<NoPropertiesFound>>)

\* fetch_properties ending in a bare "return results"
FetchFinishBareResults(a, answer) ==
    IF AnswerFailed(answer) THEN Returned(<<RequestFailed>>)
    ELSE Returned([i \in 1..Len(answer.hits) |-> Normalize(answer.hits[i], a.purpose)])

\* lines 93-141: the answer is read and every raw record normalized
FetchFinish(a, answer) ==
    IF AnswerFailed(answer) THEN Returned(<<RequestFailed>>)
    ELSE LET listings == answer.hits
             results  == [i \in 1..Len(listings) |-> Normalize(listings[i], a.purpose)]
         IN  Returned(IF results # <<>> THEN results ELSE <<NoPropertiesFound>>)

-----------------------------------------------------------------------------
(* real_estate_agent.py: ranking and formatting *)

\* the slice bound of all_results[:20]
TopN == 20

InfKey == [inf |-> TRUE, v |-> 0]

\* price_key with a missing price ranked as 0 instead of float('inf')
price_key_missing_first(tup) ==
    LET p == tup[2].price
    IN  IF p.t \in {"num", "numstr"} THEN [inf |-> FALSE, v |-> p.v] ELSE [inf |-> FALSE, v |-> 0]

\* price_key: float(p), or float('inf') when float() raises
price_key(tup) ==
    LET p == PriceOf(tup[2])
    IN  IF p.t \in {"num", "numstr"} THEN [inf |-> FALSE, v |-> p.v] ELSE InfKey

KeyLess(a, b) == ~a.inf /\ (b.inf \/ a.v < b.v)

\* list.sort(key=price_key): ascending by key, equal keys keep their order;
\* the entries of the least key first, in the order they had, then the rest
RECURSIVE SortGroups(_, _)
SortGroups(s, keys) ==
    IF keys = {} THEN <<>>
    ELSE LET least == CHOOSE a \in keys : \A b \in keys \ {a} : KeyLess(a, b)
         IN  SelectSeq(s, LAMBDA t : price_key(t) = least) \o SortGroups(s, keys \ {least})

\* all_results.sort(key=price_key)
SortResults(s) == SortGroups(s, {price_key(s[i]) : i \in 1..Len(s)})

\* the slice taken one entry too long
TruncateOneMore(s) == SubSeq(s, 1, IF Len(s) < TopN + 1 THEN Len(s) ELSE TopN + 1)

\* all_results[:20]
Truncate(s) == SubSeq(s, 1, IF Len(s) < TopN THEN Len(s) ELSE TopN)

\* format_property: the price part of the line; f"{price:,.0f}" raises
\* ValueError when the price is a text
format_property(item, nb) ==
    LET price == PriceOf(item)
    IN  CASE price.t = "none" -> [ok |-> TRUE, nb |-> nb, id |-> item.id, price_str |-> "N/A"]
          [] price.t = "num"  -> [ok |-> TRUE, nb |-> nb, id |-> item.id, price_str |-> ToString(price.v)]
          [] OTHER            -> [ok |-> FALSE, nb |-> nb, id |-> item.id, price_str |-> ""]

\* the for-loop over top_results: the lines printed before one raises
FormatLines(top) ==
    LET lines == [i \in 1..Len(top) |-> format_property(top[i][2], top[i][1])]
        bad   == {i \in 1..Len(top) : ~lines[i].ok}
    IN  [raised |-> bad # {},
         lines  |-> IF bad = {} THEN lines ELSE SubSeq(lines, 1, Min(bad) - 1)]

NotSummarized == [called |-> FALSE, listings |-> <<>>]

\* for prop in props: all_results.append((nb, prop))
Tagged(nb, props) == [i \in 1..Len(props) |-> <<nb, props[i]>>]

\* the scope with the extracted neighborhood ignored
SearchScopeAll(nb) == NEIGHBORHOOD_SCHOOLS

\* lines 204-209
SearchScope(nb) == IF nb # NoLocation THEN <<nb>> ELSE NEIGHBORHOOD_SCHOOLS

-----------------------------------------------------------------------------
(* Actions *)

\* run_real_estate_agent, lines 199-212
Parse ==
    /\ pc = "start"
    /\ neighborhood' = extract_neighborhood(Chars(user_query))
    /\ budget' = extract_budget(Chars(user_query))
    /\ purpose' = extract_purpose(Chars(user_query))
    /\ neighborhoods_to_search' = SearchScope(neighborhood')
    /\ nbi' = 1
    /\ pc' = "loop"
    /\ UNCHANGED <<user_query, query_parts, all_results, fanout_order, top_results,
                   printed, summarized, outcome, args, requests, calls, ret>>

\* run_real_estate_agent, line 217: the call of fetch_properties
CallAdapter ==
    /\ pc = "loop"
    /\ nbi <= Len(neighborhoods_to_search)
    /\ args' = FetchArgs(neighborhoods_to_search[nbi], purpose, budget, NoCategory)
    /\ ret' = NoRet
    /\ pc' = "fetch_enter"
    /\ UNCHANGED <<user_query, query_parts, neighborhood, budget, purpose,
                   neighborhoods_to_search, nbi, all_results, fanout_order, top_results,
                   printed, summarized, outcome, requests, calls>>

\* fetch_properties, lines 58-94: up to the outbound request
FetchIssue ==
    /\ pc = "fetch_enter"
    /\ LET e == FetchEnter(args)
       IN  IF e.kind = "request"
           THEN /\ requests' = Append(requests, [params |-> e.params, loc_key |-> e.loc_key,
                                                 answered |-> FALSE, failed |-> FALSE, nhits |-> 0,
                                                 hits |-> <<>>])
                /\ pc' = "fetch_wait"
                /\ UNCHANGED <<ret, calls>>
           ELSE /\ ret' = [kind |-> e.kind, value |-> e.value, error |-> e.error]
                /\ calls' = Append(calls, [args |-> args, ret |-> ret'])
                /\ pc' = "fetch_exit"
                /\ UNCHANGED requests
    /\ UNCHANGED <<user_query, query_parts, neighborhood, budget, purpose,
                   neighborhoods_to_search, nbi, all_results, fanout_order, top_results,
                   printed, summarized, outcome, args>>

\* fetch_properties, lines 94-141: the provider answers, the records are normalized
FetchAnswer ==
    /\ pc = "fetch_wait"
    /\ \E answer \in Answers(Len(requests)) :
          /\ requests' = [requests EXCEPT ![Len(requests)] =
                             [@ EXCEPT !.answered = TRUE, !.failed = AnswerFailed(answer),
                                       !.nhits = Len(answer.hits), !.hits = answer.hits]]
          /\ ret' = FetchFinish(args, answer)
          /\ calls' = Append(calls, [args |-> args, ret |-> ret'])
    /\ pc' = "fetch_exit"
    /\ UNCHANGED <<user_query, query_parts, neighborhood, budget, purpose,
                   neighborhoods_to_search, nbi, all_results, fanout_order, top_results,
                   printed, summarized, outcome, args>>

\* run_real_estate_agent, lines 217-221: the returned list is collected
AdapterReturn ==
    /\ pc = "fetch_exit"
    /\ nbi >= 1
    /\ IF ret.kind = "raise"
       THEN /\ outcome' = "raised"
            /\ pc' = "done"
            /\ UNCHANGED <<nbi, all_results, fanout_order>>
       ELSE /\ all_results' = all_results \o Tagged(neighborhoods_to_search[nbi], ret.value)
            /\ fanout_order' = all_results'
            /\ nbi' = nbi + 1
            /\ pc' = "loop"
            /\ UNCHANGED outcome
    /\ UNCHANGED <<user_query, query_parts, neighborhood, budget, purpose,
                   neighborhoods_to_search, top_results, printed, summarized,
                   args, requests, calls, ret>>

\* run_real_estate_agent, lines 223-249
Finish ==
    /\ pc = "loop"
    /\ nbi > Len(neighborhoods_to_search)
    /\ pc' = "done"
    /\ IF all_results = <<>>
       THEN /\ outcome' = "no_properties"
            /\ UNCHANGED <<all_results, top_results, printed, summarized>>
       ELSE /\ all_results' = SortResults(all_results)
            /\ top_results' = Truncate(all_results')
            /\ LET f == FormatLines(top_results')
               IN  /\ printed' = f.lines
                   /\ IF f.raised
                      THEN /\ outcome' = "format_raised"
                           /\ UNCHANGED summarized
                      ELSE /\ outcome' = "summarized"
                           /\ summarized' = [called |-> TRUE, listings |-> top_results']
    /\ UNCHANGED <<user_query, query_parts, neighborhood, budget, purpose,
                   neighborhoods_to_search, nbi, fanout_order, args, requests, calls, ret>>

-----------------------------------------------------------------------------
(* Inputs *)

NoParts == [lead |-> "", before |-> "", blanks |-> <<0, 0, 0>>, number |-> "",
            unit |-> "", currency |-> ""]

ScenarioA == "Find apartments for rent in Mirdif under 2M AED"

\* the queries the whole pipeline is run on
PipelineQueries ==
    { ScenarioA,
      "Villa in Palm Jumeirah",
      "3 bed townhouse in JUMEIRAH under 2,500,000 AED",
      "Family home for sale under 2.5 million AED" }

Start(q, parts) ==
    /\ user_query = q
    /\ query_parts = parts
    /\ neighborhood = NoLocation
    /\ budget = None
    /\ purpose = ""
    /\ neighborhoods_to_search = <<>>
    /\ nbi = 0
    /\ all_results = <<>>
    /\ fanout_order = <<>>
    /\ top_results = <<>>
    /\ printed = <<>>
    /\ summarized = NotSummarized
    /\ outcome = "running"
    /\ requests = <<>>
    /\ calls = <<>>
    /\ ret = NoRet

Spaces(n) == [i \in 1..n |-> " "]

RECURSIVE Text(_)
\* a sequence of characters as one text
Text(cs) == IF cs = <<>> THEN "" ELSE cs[1] \o Text(Tail(cs))

\* what stands before the budget phrase: a neighborhood, or nothing
Leads ==
    { "", "Find apartments for rent in Mirdif ", "Villa in Palm Jumeirah ",
      "Homes near EMIRATES HILLS " }

\* an earlier budget phrase
Befores == { "", "under 500 AED and ", "under 3M AED and ", "under 1.2.3M AED and " }

NumberTexts == { "2.5", "2,500,000", "2", "2.", ".5", "0.25", "1.2.3", ".", ",", "", "500", "12,5" }

UnitTexts == { "", "M", "Million", "Mil" }

CurrencyTexts == { "AED", "aed", "USD" }

Blanks == (0..MaxSpaces) \X (0..MaxSpaces) \X (0..MaxSpaces)

\* the budget phrases in all their spellings behind no lead, and every lead
\* before the two spellings of 2,500,000
QueryParts ==
    [lead : {""}, before : Befores, blanks : Blanks, number : NumberTexts,
     unit : UnitTexts, currency : CurrencyTexts]
    \cup
    [lead : Leads, before : {""}, blanks : {<<1, 0, 1>>}, number : {"2.5", "2,500,000"},
     unit : {"", "M"}, currency : {"AED"}]

BuildQuery(p) ==
    p.lead \o p.before \o "under" \o Text(Spaces(p.blanks[1])) \o p.number
       \o Text(Spaces(p.blanks[2])) \o p.unit \o Text(Spaces(p.blanks[3])) \o p.currency

Init ==
    /\ \E q \in PipelineQueries : Start(q, NoParts)
    /\ pc = "start"
    /\ args = NoArgs

Next == Parse \/ CallAdapter \/ FetchIssue \/ FetchAnswer \/ AdapterReturn \/ Finish

\* one whole run of run_real_estate_agent
Spec == Init /\ [][Next]_vars

InitExtract ==
    /\ \E p \in QueryParts : Start(BuildQuery(p), p)
    /\ pc = "start"
    /\ args = NoArgs

\* the extractors applied to queries put together from parts
SpecExtract == InitExtract /\ [][Parse]_vars

\* the arguments fetch_properties is called with on its own
FetchArgSets ==
    { FetchArgs(l, p, b, c) :
         l \in {"", "dubai", " Mirdif ", "Al Barsha", "Palm Jumeirah"},
         p \in {"", "rent", "sale"},
         b \in {None, Num(2500000, 1), Num(5, 2), NaN, Inf},
         c \in {NoCategory, "", "villa", "Villa", "castle", "apartment"} }

InitFetch ==
    /\ Start("", NoParts)
    /\ pc = "fetch_enter"
    /\ args \in FetchArgSets

\* one call of fetch_properties
SpecFetch == InitFetch /\ [][FetchIssue \/ FetchAnswer]_vars

\* fetch_properties called on its own or by run_real_estate_agent
SpecCalls == (Init \/ InitFetch) /\ [][Next]_vars

-----------------------------------------------------------------------------
(* Properties of one run of run_real_estate_agent *)

Ranked == pc = "done" /\ outcome \in {"summarized", "format_raised"}

\* a price float() can read
Usable(tup) == PriceOf(tup[2]).t \in {"num", "numstr"}

PriceValue(tup) == PriceOf(tup[2]).v

UsableValues == {PriceValue(fanout_order[i]) : i \in {j \in 1..Len(fanout_order) : Usable(fanout_order[j])}}

\* C1: when every outbound call succeeds with an empty or absent hit list, the
\* run ends in the "no properties found" branch with an empty result: nothing
\* is sorted, formatted or summarized.
C1_NoListingsEndsEmpty ==
    (/\ pc = "done"
     /\ outcome # "raised"
     /\ \A i \in 1..Len(requests) : ~requests[i].failed /\ requests[i].nhits = 0)
    => /\ outcome = "no_properties"
       /\ all_results = <<>>
       /\ top_results = <<>>
       /\ printed = <<>>
       /\ ~summarized.called

\* C3: after the sort, usable prices are in non-decreasing order, every entry
\* without a usable price comes after every entry with one, and entries of
\* equal price, and entries without a price, keep the order of the fan-out.
C3_SortedByPrice ==
    Ranked =>
      /\ Len(all_results) = Len(fanout_order)
      /\ \A i, j \in 1..Len(all_results) :
            /\ (i < j /\ Usable(all_results[i]) /\ Usable(all_results[j]))
                  => PriceValue(all_results[i]) <= PriceValue(all_results[j])
            /\ (Usable(all_results[i]) /\ ~Usable(all_results[j])) => i < j
      /\ \A v \in UsableValues :
            SelectSeq(all_results, LAMBDA t : Usable(t) /\ PriceValue(t) = v)
               = SelectSeq(fanout_order, LAMBDA t : Usable(t) /\ PriceValue(t) = v)
      /\ SelectSeq(all_results, LAMBDA t : ~Usable(t))
            = SelectSeq(fanout_order, LAMBDA t : ~Usable(t))

\* a ranked run whose fan-out met an unpriced entry before a priced one, and
\* two entries of one price from two neighborhoods
C3_Witness ==
    /\ Ranked
    /\ \E i, j \in 1..Len(fanout_order) :
          i < j /\ ~Usable(fanout_order[i]) /\ Usable(fanout_order[j])
    /\ \E i, j \in 1..Len(fanout_order) :
          /\ Usable(fanout_order[i]) /\ Usable(fanout_order[j])
          /\ PriceValue(fanout_order[i]) = PriceValue(fanout_order[j])
          /\ fanout_order[i][1] # fanout_order[j][1]

\* the neighborhoods the run has to search, from the extracted location
ScopeOf(nb) == IF nb = NoLocation THEN NEIGHBORHOOD_SCHOOLS ELSE <<nb>>

RECURSIVE TaggedReturns(_)
TaggedReturns(cs) ==
    IF cs = <<>> THEN <<>>
    ELSE TaggedReturns(SubSeq(cs, 1, Len(cs) - 1))
            \o Tagged(cs[Len(cs)].args.location, cs[Len(cs)].ret.value)

ListingsOf(props) == SelectSeq(props, LAMBDA x : x.kind = "listing")

C6_TopTwenty ==
    /\ Len(top_results) <= 20
    /\ Len(printed) <= Len(top_results)
    /\ Ranked =>
          /\ Len(top_results) = (IF Len(all_results) < 20 THEN Len(all_results) ELSE 20)
          /\ \A i \in 1..Len(top_results) : top_results[i] = all_results[i]
          /\ \A i \in 1..Len(printed) :
                printed[i].nb = top_results[i][1] /\ printed[i].id = top_results[i][2].id
          /\ outcome = "summarized" => Len(printed) = Len(top_results)
    /\ summarized.called => outcome = "summarized" /\ summarized.listings = top_results

\* more than twenty merged entries were ranked and the first twenty summarized
C6_Witness ==
    /\ Ranked
    /\ Len(all_results) > 20
    /\ summarized.called
    /\ Len(summarized.listings) = 20

\* the keyword priority list the intent's category is said to be taken from
CategoryKeywords ==
    << "villa", "apartment", "townhouse", "industrial land", "mixed use land", "land",
       "floor", "building", "penthouse", "office", "warehouse", "shop", "labour camp",
       "bulk unit", "factory", "showroom", "other commercial" >>

ClaimedCategory(query) ==
    LET q    == Lower(Chars(query))
        hits == {i \in 1..Len(CategoryKeywords) : Contains(Chars(CategoryKeywords[i]), q)}
    IN  IF hits = {} THEN NoCategory ELSE CategoryKeywords[Min(hits)]

\* C8: the intent has a category, the first keyword of the priority list that
\* occurs in the query, and the adapter is called with it; scenario A gives
\* mirdif, rent, 2,000,000 and apartment.
C8_IntentCategory ==
    /\ \A i \in 1..Len(calls) : calls[i].args.category = ClaimedCategory(user_query)
    /\ (user_query = ScenarioA /\ pc # "start") =>
          /\ neighborhood = "mirdif"
          /\ purpose = "rent"
          /\ budget = Num(2000000, 1)

-----------------------------------------------------------------------------
(* Properties of the extractors *)

\* C7: for every known key k, a query that contains k (case ignored) yields k;
\* a query that contains no known key yields no location.
C7_EveryKeyExtracted ==
    pc # "start" =>
       LET q == Lower(Chars(user_query))
       IN  /\ \A i \in 1..Len(NEIGHBORHOOD_SCHOOLS) :
                 Contains(NeighborhoodKeys[i], q) => neighborhood = NEIGHBORHOOD_SCHOOLS[i]
           /\ (\A i \in 1..Len(NEIGHBORHOOD_SCHOOLS) : ~Contains(NeighborhoodKeys[i], q))
                 => neighborhood = NoLocation

\* What each number text is worth: read as X(.Y) in the million pattern (in
\* AED, after the multiplication) and as N,NNN in the plain pattern.
\* NotInClass: the text is not made of the pattern's characters, so the
\* pattern cannot match around it; Malformed: it is, and is no number.
NotInClass == [kind |-> "not in class", v |-> 0]

Malformed == [kind |-> "malformed", v |-> 0]

Worth(v) == [kind |-> "value", v |-> v]

NumberWorth ==
    { [text |-> "2.5",       million |-> Worth(2500000),   plain |-> NotInClass],
      [text |-> "2,500,000", million |-> NotInClass,       plain |-> Worth(2500000)],
      [text |-> "2",         million |-> Worth(2000000),   plain |-> Worth(2)],
      [text |-> "2.",        million |-> Worth(2000000),   plain |-> NotInClass],
      [text |-> ".5",        million |-> Worth(500000),    plain |-> NotInClass],
      [text |-> "0.25",      million |-> Worth(250000),    plain |-> NotInClass],
      [text |-> "1.2.3",     million |-> Malformed,        plain |-> NotInClass],
      [text |-> ".",         million |-> Malformed,        plain |-> NotInClass],
      [text |-> ",",         million |-> NotInClass,       plain |-> Malformed],
      [text |-> "",          million |-> NotInClass,       plain |-> NotInClass],
      [text |-> "500",       million |-> Worth(500000000), plain |-> Worth(500)],
      [text |-> "12,5",      million |-> NotInClass,       plain |-> Worth(125)] }

WorthOf(text) == CHOOSE w \in NumberWorth : w.text = text

\* what the earlier phrase gives to each pattern
BeforeWorth(text) ==
    CASE text = "under 500 AED and "    -> [million |-> NotInClass, plain |-> Worth(500)]
      [] text = "under 3M AED and "     -> [million |-> Worth(3000000), plain |-> NotInClass]
      [] text = "under 1.2.3M AED and " -> [million |-> Malformed, plain |-> NotInClass]
      [] OTHER                          -> [million |-> NotInClass, plain |-> NotInClass]

\* what the phrase under<blanks>number<blanks>unit<blanks>currency gives to
\* each pattern
PhraseWorth(p) ==
    LET w   == WorthOf(p.number)
        aed == p.currency \in {"AED", "aed"}
    IN  [million |-> IF p.blanks[1] >= 1 /\ p.unit \in {"M", "Million"} /\ aed
                     THEN w.million ELSE NotInClass,
         plain   |-> IF p.blanks[1] >= 1 /\ p.unit = "" /\ aed
                     THEN w.plain ELSE NotInClass]

\* the leftmost phrase a pattern matches decides for that pattern
Leftmost(first, second) == IF first # NotInClass THEN first ELSE second

\* the million pattern first; the plain pattern when it gave no value
ClaimedBudget(p) ==
    LET million == Leftmost(BeforeWorth(p.before).million, PhraseWorth(p).million)
        plain   == Leftmost(BeforeWorth(p.before).plain, PhraseWorth(p).plain)
    IN  IF million.kind = "value" THEN Num(million.v, 1)
        ELSE IF plain.kind = "value" THEN Num(plain.v, 1)
        ELSE None

\* C9: "under 2.5M AED" and "under 2,500,000 AED" give exactly 2,500,000; the
\* million pattern is tried first and gives X.Y times 1,000,000; the plain
\* pattern is used only when the first gave no value and gives the digits
\* without their separators; no match gives no budget; a malformed number
\* gives no value and raises nothing.
C9_BudgetExtraction ==
    pc # "start" =>
       /\ budget = ClaimedBudget(query_parts)
       /\ (/\ query_parts.before = ""
           /\ query_parts.blanks[1] >= 1
           /\ query_parts.currency = "AED"
           /\ \/ query_parts.number = "2.5" /\ query_parts.unit = "M"
              \/ query_parts.number = "2,500,000" /\ query_parts.unit = "")
          => budget = Num(2500000, 1)

\* a plain phrase followed by a million phrase: the million pattern won
C9_Witness ==
    /\ pc # "start"
    /\ query_parts.before = "under 500 AED and "
    /\ query_parts.number = "2.5"
    /\ query_parts.unit = "Million"
    /\ query_parts.blanks = <<2, 1, 0>>
    /\ budget = Num(2500000, 1)

-----------------------------------------------------------------------------
(* Properties of one call of fetch_properties *)

IsVilla(category) == category # NoCategory /\ Lower(Chars(category)) = Chars("villa")

\* C2: a villa search on the generic regional identifier that finds nothing is
\* retried against DUBAI_VILLA_NEIGHBORHOODS in declared order with the same
\* filters, one request at a time, up to the first neighborhood with hits,
\* whose set is returned; empty if all are empty; never more retries than the
\* list has entries.
C2_VillaFallback ==
    (/\ pc = "fetch_exit"
     /\ IsVilla(args.category)
     /\ Len(requests) >= 1
     /\ requests[1].params.locationExternalIDs = FallbackLocationId
     /\ ~requests[1].failed
     /\ requests[1].nhits = 0)
    => LET retries == Len(requests) - 1
           last    == requests[Len(requests)]
       IN  /\ retries >= 1
           /\ retries <= Len(DUBAI_VILLA_NEIGHBORHOODS)
           /\ \A k \in 1..retries :
                 /\ requests[k + 1].loc_key = Lower(Chars(DUBAI_VILLA_NEIGHBORHOODS[k]))
                 /\ requests[k + 1].params.categoryExternalID = requests[1].params.categoryExternalID
                 /\ requests[k + 1].params.maxPrice = requests[1].params.maxPrice
                 /\ requests[k + 1].params.purpose = requests[1].params.purpose
                 /\ k < retries => requests[k + 1].nhits = 0
           /\ retries < Len(DUBAI_VILLA_NEIGHBORHOODS) => last.nhits > 0
           /\ last.nhits > 0 => Len(ret.value) = last.nhits

\* C10: with a location and a purpose, the call issues its one request with
\* the table's identifier or the catch-all one, with the category filter
\* exactly when the category is a key of the table, and with the max-price
\* filter exactly when a budget is given and coerces to an integer; a budget
\* that does not coerce leaves the filter out and does not fail the call.
C10_LookupMissNeverFatal ==
    (pc \in {"fetch_wait", "fetch_exit"} /\ args.location # "" /\ args.purpose # "")
    => /\ ret.kind # "raise"
       /\ Len(requests) = 1
       /\ requests[1].params.locationExternalIDs
             = TableGet(location_map, Lower(Strip(Chars(args.location))), FallbackLocationId)
       /\ (requests[1].params.categoryExternalID # Absent)
             = (/\ args.category # NoCategory
                /\ \E i \in 1..Len(PROPERTY_TYPE_IDS) :
                      Chars(PROPERTY_TYPE_IDS[i][1]) = Lower(Chars(args.category)))
       /\ requests[1].params.maxPrice.present = (args.budget.t = "num")

-----------------------------------------------------------------------------
(* What fetch_properties returns, and what the aggregator does with it *)

IsMarker(e) == e.kind \in {"error", "message"}

\* the request the i-th call issued: a call returns early only when it is
\* called on its own, so calls that reach the provider pair up with requests
IssuedRequest(i) ==
    /\ calls[i].args.location # "" /\ calls[i].args.purpose # ""
    /\ calls[i].ret.kind = "return"
    /\ i <= Len(requests)

\* the entry the claim expects for one raw record
ClaimedEntry(item, purp) ==
    IF item.malformed THEN Marker("error", "Error parsing property")
    ELSE [kind |-> "listing", text |-> "", purpose |-> purp, price |-> item.price,
          id |-> item.id]

\* what the aggregator collected from the i-th call, in the order collected
CollectedFrom(i) ==
    LET FromCall(t) == t[1] = calls[i].args.location
        mine == SelectSeq(fanout_order, FromCall)
    IN  [k \in 1..Len(mine) |-> mine[k][2]]

\* the entries the aggregator holds when its loop is over
Merged == {all_results[k][2] : k \in 1..Len(all_results)}

\* C11: a call of fetch_properties that returns never returns an empty list:
\* on a missing location or purpose, or on a failed request, it returns exactly
\* one error marker; on n >= 1 raw records it returns n entries in provider
\* order, a listing or a parse-error marker per record; on zero records or no
\* hit field it returns exactly the "No properties found." marker; and the
\* aggregator collects every list returned, markers included, entry by entry.
C11_NeverEmptyReturn ==
    /\ \A i \in 1..Len(calls) :
          LET c == calls[i]
              v == c.ret.value
          IN  /\ c.ret.kind = "return" => Len(v) >= 1
              /\ (c.args.location = "" \/ c.args.purpose = "")
                    => /\ c.ret.kind = "return"
                       /\ Len(v) = 1 /\ v[1].kind = "error"
              /\ IssuedRequest(i) =>
                    LET r == requests[i]
                    IN  /\ r.answered
                        /\ r.failed => Len(v) = 1 /\ v[1].kind = "error"
                        /\ (~r.failed /\ r.nhits >= 1) =>
                              /\ Len(v) = r.nhits
                              /\ \A k \in 1..r.nhits :
                                    v[k] = ClaimedEntry(r.hits[k], c.args.purpose)
                        /\ (~r.failed /\ r.nhits = 0) =>
                              /\ Len(v) = 1 /\ v[1].kind = "message"
                              /\ v[1].text = "No properties found."
    /\ (nbi >= 1 /\ pc \in {"loop", "done"} /\ outcome # "raised") =>
          \A i \in 1..Len(calls) :
             /\ CollectedFrom(i) = calls[i].ret.value
             /\ \A k \in 1..Len(calls[i].ret.value) :
                   IsMarker(calls[i].ret.value[k]) => calls[i].ret.value[k] \in Merged

\* a run that summarized a "No properties found." marker and an error marker
\* among its listings, after a call that returned one entry per raw record
C11_Witness ==
    /\ pc = "done" /\ summarized.called
    /\ \E k \in 1..Len(summarized.listings) : summarized.listings[k][2].kind = "message"
    /\ \E k \in 1..Len(summarized.listings) : summarized.listings[k][2].kind = "error"
    /\ \E i \in 1..Len(calls) : Len(calls[i].ret.value) = MaxHits

====
